---- MODULE Spec2Model ----
(***************************************************************************)
(* Model of script.py: the carrier-bundle baking pipeline.                 *)
(*                                                                         *)
(* main() walks IPHONES_PRODUCT_CODES, fetches each device's catalog and   *)
(* creates one task run(firmware) per firmware in an asyncio.TaskGroup.    *)
(* Every task runs under one asyncio.Semaphore(5).                         *)
(*                                                                         *)
(* asyncio is cooperative: a task runs without interruption up to its next *)
(* real suspension point.  In run() these are the semaphore acquisition    *)
(* (when no slot is free), session.get (line 155) and the chunk iterator   *)
(* (line 171); calculate_hash, put_metadata, the zip/7z/tar steps are      *)
(* synchronous calls.  Each action below is one such uninterrupted         *)
(* segment of a task (or of main).                                         *)
(*                                                                         *)
(* Two kinds of run are explored: a short enumeration on a disk with a     *)
(* history (firmware files and ledgers already there), and a longer one    *)
(* on an empty disk, with more workflows than the semaphore has slots.     *)
(* SpecFair is the latter under fair scheduling.  SpecSelect applies the   *)
(* selection of the disk image to containers, on its own.                  *)
(*                                                                         *)
(* Abstractions: a file's bytes are represented by their digest class      *)
(* ("good" = SHA-1 equals firmware.sha1sum, "corrupt"/"partial" = it does  *)
(* not); a JSON file is [valid, items]; text is a sequence of tokens.      *)
(***************************************************************************)
EXTENDS Integers, Sequences, FiniteSets, TLC

\* ---- bounds of the model -------------------------------------------------
MaxCodes == 2        \* codes walked by a run on a disk with a history
GateCodes == 5       \* codes walked by a first run on an empty disk
MaxEntries == 4      \* entries of a container

\* ---- program constants ---------------------------------------------------
SemaphoreSize == 5   \* asyncio.Semaphore(5)

\* The enumeration names one device twice in a row ("10,4", "10,4") and then
\* goes on with other devices; a run walks a prefix of it.
IPHONES_PRODUCT_CODES(n) == [i \in 1..n |-> IF i <= 2 THEN 1 ELSE i - 1]

LongestRun == IF MaxCodes > GateCodes THEN MaxCodes ELSE GateCodes
Devices == {IPHONES_PRODUCT_CODES(LongestRun)[i] : i \in 1..LongestRun}

\* Response.firmwares for a device (the catalog answer, status 200), the
\* versions as token sequences: "1.2" and "11.2" for the device named twice,
\* "1.2" for the others, but for one device that has no firmware at all.
\* "1.2" occurs inside "11.2".
Catalog(d) ==
    IF d = 1 THEN << <<1, 2>>, <<1, 1, 2>> >>
    ELSE IF d = 4 THEN <<>>
    ELSE << <<1, 2>> >>

Versions == UNION {{Catalog(d)[k] : k \in 1..Len(Catalog(d))} : d \in Devices}
Dirs == Devices \X Versions

VARIABLES
    codes,        \* the enumeration main walks
    mainpc,       \* position of main: "loop", "join", "aborting", "returned", "raised"
    idx,          \* index of the next code
    fetched,      \* what each catalog request got so far: "200", "non200", "raise"
    tasks,        \* the TaskGroup's tasks, in creation order
    value,        \* semaphore._value
    waiters,      \* semaphore._waiters (task indexes, FIFO)
    ipsw,         \* {identifier}/{version}/{identifier}-{version}.ipsw
    dmg,          \* the disk image in the version folder: "absent", "aea" (encrypted), "dmg"
    tars,         \* the {bundle}.tar of the version folder: <<>>, or <<w>> written by w
    bundlesJson,  \* {identifier}/{version}/bundles.json
    metadata,     \* {identifier}/metadata.json
    last,         \* the workflow whose run ended in the step just taken, and how
    infolist,     \* zip_file.infolist(): the file_size of every entry of a container
    biggest_dmg   \* the entry selected from it

vars == <<codes, mainpc, idx, fetched, tasks, value, waiters, ipsw, dmg, tars, bundlesJson,
          metadata, last, infolist, biggest_dmg>>
zipvars == <<infolist, biggest_dmg>>
fsvars == <<ipsw, dmg, tars, bundlesJson, metadata>>

Terminal == {"Done", "Failed", "Cancelled"}
Holding == {"woken", "get", "stream"}

\* ---- pure helpers --------------------------------------------------------

\* A comparison of the whole text in place of the substring test.
ContainsWholeText(text, v) == text = v

\* str.__contains__: v occurs as a contiguous run of text.
Contains(text, v) ==
    \E i \in 1..(Len(text) - Len(v) + 1) : SubSeq(text, i, i + Len(v) - 1) = v

RECURSIVE Concat(_)
Concat(ss) == IF ss = <<>> THEN <<>> ELSE Head(ss) \o Concat(Tail(ss))

\* json.dumps of the ledger as read back by read_text(): every entry's
\* version sits between quotes (token 0).  An invalid file holds the same
\* text cut short of its closing brace.
ReadText(file) == Concat([i \in 1..Len(file.items) |-> <<0>> \o file.items[i].version \o <<0>>])

\* calculate_hash: the digest of the file at the path; opening a missing
\* file raises FileNotFoundError.
calculate_hash(content) ==
    IF content = "absent" THEN "FileNotFoundError"
    ELSE IF content = "good" THEN "sha1sum"
    ELSE "other"

\* A JSON file: whether its text parses, the list under its key, and the
\* updated_at stamp (the workflow that wrote it last, 0 for an earlier run).
EmptyFile == [valid |-> TRUE, items |-> <<>>, updated_at |-> 0]

\* The firmware's bundles as tar_and_hash_bundles records them.
BundleRecords(T) == <<[bundle_name |-> 1, tar_file |-> 1, sha1 |-> T.ver]>>

\* The fw entry built by the callback of lines 480-490.
FwEntry(T, t) ==
    [version |-> T.ver, sha1 |-> "sha1sum", status |-> "processed", downloaded_at |-> t]

NewTask(d, v) ==
    [dev |-> d, ver |-> v, pc |-> "created",
     pre |-> "none",        \* the file at file_path when download_file was entered
     http |-> 0,            \* GET requests issued
     stages |-> <<>>]       \* the stages run, in order, with their outcome

\* What is observed of a workflow when run ends: the file at file_path when
\* its last segment began, what the server answered to its GET, how
\* download_file ended and the file it left at file_path, and how run ended.
NoOutcome ==
    [t |-> 0, was |-> "none", body |-> "none", dlres |-> "none", dlfile |-> "none", end |-> "none"]

\* Outcomes are observed in the runs that start with one; the other runs
\* keep the mark they start with.
Unobserved == [NoOutcome EXCEPT !.body = "unobserved"]
Observe(outcome) == IF last = Unobserved THEN Unobserved ELSE outcome

Stage(T, n, o) == [T EXCEPT !.stages = Append(@, [name |-> n, ok |-> o])]

\* The part of the file system one workflow touches.
World(T) ==
    [ipsw |-> ipsw[<<T.dev, T.ver>>], dmg |-> dmg[<<T.dev, T.ver>>],
     tars |-> tars[<<T.dev, T.ver>>], bj |-> bundlesJson[<<T.dev, T.ver>>],
     md |-> metadata[T.dev]]

Commit(T, W) ==
    /\ ipsw' = [ipsw EXCEPT ![<<T.dev, T.ver>>] = W.ipsw]
    /\ dmg' = [dmg EXCEPT ![<<T.dev, T.ver>>] = W.dmg]
    /\ tars' = [tars EXCEPT ![<<T.dev, T.ver>>] = W.tars]
    /\ bundlesJson' = [bundlesJson EXCEPT ![<<T.dev, T.ver>>] = W.bj]
    /\ metadata' = [metadata EXCEPT ![T.dev] = W.md]

\* ---- the stages ----------------------------------------------------------

\* The smaller entry wins.
PreferSmaller(size, best) == size < best

\* max keeps the first of the entries of the greatest key: a later entry
\* replaces it only when its file_size is greater.
Prefer(size, best) == size > best

\* max(zip_file.infolist(), key=lambda x: x.file_size), line 287, over the
\* first n entries: the index of the entry max holds after them.
RECURSIVE MaxByFileSize(_, _)
MaxByFileSize(entries, n) ==
    IF n = 1 THEN 1
    ELSE LET best == MaxByFileSize(entries, n - 1)
         IN  IF Prefer(entries[n], entries[best]) THEN n ELSE best

NotSelected == [res |-> "none", entry |-> 0]

\* Lines 286-288: max raises ValueError on an empty sequence.
SelectBiggest(entries) ==
    IF entries = <<>> THEN [res |-> "ValueError", entry |-> 0]
    ELSE [res |-> "Ok", entry |-> MaxByFileSize(entries, Len(entries))]

\* The resumability check left out.
ResumableNever(file, ver) == FALSE

\* A check that parses the ledger and takes an unreadable one for empty.
ResumableParsed(file, ver) == file.valid /\ Contains(ReadText(file), ver)

\* Line 427: firmware.version in json_metadata_path.read_text()
Resumable(file, ver) == Contains(ReadText(file), ver)

\* The existing file is never trusted: it is always unlinked and fetched again.
download_entry_always_fetch(content) == [res |-> "fetch", ipsw |-> "absent"]

\* download_file, lines 147-152: an existing file with the expected digest
\* is returned as it is; any other existing file is unlinked.
download_entry(content) ==
    IF content # "absent" /\ calculate_hash(content) = "sha1sum"
    THEN [res |-> "Ok", ipsw |-> content]
    ELSE [res |-> "fetch", ipsw |-> "absent"]

\* Lines 165-173, all chunks written: the file opened at line 166 holds the body.
BodyWritten(content, how) ==
    IF content = "partial" /\ how \in {"good", "bad"}
    THEN (IF how = "good" THEN "good" ELSE "corrupt")
    ELSE content

\* A finally clause that leaves the file where it is.
FinallyKeeps(content, how) == content

\* Line 182, the finally clause: it runs on every way out of the try block.
FinallyUnlink(content, how) == "absent"

\* download_file, lines 154-187, from the answer of the server on.
\* how: "non200", "neterr" (aiohttp.ClientError), "exc" (another exception),
\* "good"/"bad" (200, the body completely written, digest equal or not).
download_finish(content, how) ==
    LET after == FinallyUnlink(BodyWritten(content, how), how)
        res == IF how = "non200" THEN "ErrStatus"
               ELSE IF how = "neterr" THEN "ErrNetwork"
               ELSE IF how = "exc" THEN "ErrOther"
               ELSE IF calculate_hash(after) = "FileNotFoundError" THEN "raise"
               ELSE IF calculate_hash(after) # "sha1sum" THEN "ErrHash"
               ELSE "Ok"
    IN  [res |-> res, ipsw |-> after]

\* The container and the image are removed as soon as the tools have run.
extract_cleans_up_always(W, x) ==
    [res |-> x, W |-> [W EXCEPT !.dmg = "absent", !.ipsw = "absent"]]

\* extract_the_biggest_dmg, lines 283-363.  x is what the external tools do:
\* "Ok" (7z exit code 0), "ErrDecrypt" (decrypt_dmg_aea returned Error: the
\* encrypted image stays), "Err7z" (7z exit code # 0: the image given to 7z
\* stays, line 355 returns before the unlinks of lines 358 and 361),
\* "raise" (the bootstrap of the decryption tool failed, lines 214-224).
extract_the_biggest_dmg(W, x) ==
    IF x = "Ok"
    THEN [res |-> "Ok", W |-> [W EXCEPT !.dmg = "absent", !.ipsw = "absent"]]
    ELSE [res |-> x, W |-> [W EXCEPT !.dmg = IF x = "Err7z" THEN "dmg" ELSE "aea"]]

\* delete_non_bundles, lines 370-377: shutil.move raises when a bundle
\* directory of the same name is already in the version folder.
delete_non_bundles(W, r) == [res |-> r, W |-> W]

\* tar_and_hash_bundles, lines 380-402: tarfile.open(bundle_tar, "w")
\* creates the archive or overwrites the one of that name.
tar_and_hash_bundles(W, T, t, p) ==
    IF p = "Ok"
    THEN [res |-> "Ok", W |-> [W EXCEPT !.tars = <<t>>], value |-> BundleRecords(T)]
    ELSE [res |-> p, W |-> W, value |-> <<>>]

\* A callback that drops what the file already holds.
OverwriteCallback(acc, new) == new

\* The callbacks handed to put_metadata: lambda acc: (acc or []) + new
AppendCallback(acc, new) == acc \o new

\* put_metadata without its json.loads: the callback's value and the stamp
\* are written whatever the file held.
put_metadata_unparsed(file, new, now) ==
    [res |-> "Ok",
     file |-> [file EXCEPT !.items = AppendCallback(@, new), !.updated_at = now]]

\* put_metadata, lines 190-201: json.loads raises JSONDecodeError on a text
\* that is not valid JSON, before the callback is called and before
\* write_text; the except clause turns it into Error.
put_metadata(file, new, now) ==
    IF file.valid
    THEN [res |-> "Ok",
          file |-> [file EXCEPT !.items = AppendCallback(@, new), !.updated_at = now]]
    ELSE [res |-> "Error", file |-> file]

\* run, lines 437-491: the stages after download_file returned Ok.
\* Gives the task's record, its world and how run ended.
AfterDownload(T, t, W, x, r, p) ==
    LET e == extract_the_biggest_dmg(W, x)
        T1 == Stage(T, "extract", e.res = "Ok")
        m == delete_non_bundles(e.W, r)
        T2 == Stage(T1, "relocate", m.res = "Ok")
        k == tar_and_hash_bundles(m.W, T, t, p)
        T3 == Stage(T2, "package", k.res = "Ok")
        b == put_metadata(k.W.bj, k.value, t)
        T4 == Stage(T3, "bundles_json", b.res = "Ok")
        W4 == [k.W EXCEPT !.bj = b.file]
        f == put_metadata(W4.md, <<FwEntry(T, t)>>, t)
        T5 == Stage(T4, "device_ledger", f.res = "Ok")
        W5 == [W4 EXCEPT !.md = f.file]
    IN  IF e.res # "Ok"
        THEN [task |-> T1, W |-> e.W, end |-> IF e.res = "raise" THEN "exception" ELSE "error"]
        ELSE IF m.res # "Ok"
        THEN [task |-> T2, W |-> m.W, end |-> "exception"]
        ELSE IF k.res # "Ok"
        THEN [task |-> T3, W |-> k.W, end |-> "exception"]
        ELSE [task |-> T5, W |-> W5, end |-> "processed"]

\* download_file returned: lines 434-435, then the stages.
Downloaded(T, t, W, dl, x, r, p) ==
    LET T0 == Stage(T, "download", dl.res = "Ok")
        W0 == [W EXCEPT !.ipsw = dl.ipsw]
    IN  IF dl.res = "Ok" THEN AfterDownload(T0, t, W0, x, r, p)
        ELSE [task |-> T0, W |-> W0, end |-> IF dl.res = "raise" THEN "exception" ELSE "error"]

\* What the external tools and the file system do to the stages after the
\* download; nothing is drawn when download_file did not return Ok.
ToolOutcomes(dl) ==
    IF dl.res = "Ok"
    THEN {"Ok", "ErrDecrypt", "Err7z", "raise"} \X {"Ok", "raise"} \X {"Ok", "raise"}
    ELSE {<<"Ok", "Ok", "Ok">>}

\* ---- the semaphore (async with semaphore, line 414) ----------------------

\* A gate that never closes.
LockedNever(val, ws) == FALSE

\* Semaphore.locked(): no free slot, or somebody already queues.
Locked(val, ws) == val = 0 \/ ws # <<>>

\* Semaphore.release(): the slot goes to the first waiter not yet woken
\* (it stays in _waiters until it resumes), else back to _value.
Release(ts, val, ws) ==
    LET cand == {i \in 1..Len(ws) : ts[ws[i]].pc = "waiting"}
        first == CHOOSE i \in cand : \A j \in cand : i <= j
    IN  IF cand = {}
        THEN /\ tasks' = ts
             /\ value' = val + 1
             /\ waiters' = ws
        ELSE /\ tasks' = [ts EXCEPT ![ws[first]].pc = "woken"]
             /\ value' = val
             /\ waiters' = ws

Without(ws, t) == SelectSeq(ws, LAMBDA u : u # t)

\* ---- the TaskGroup -------------------------------------------------------

\* run without its try/except.
RunCatchesNothing(end) == FALSE

\* Line 492: except Exception catches what a stage raised; run then ends
\* normally.  An exception leaving run would make the TaskGroup abort.
RunCatches(end) == TRUE

\* Tasks created and not awaited.
AllTasksDoneUnchecked(ts) == TRUE

\* __aexit__ of the TaskGroup (line 523): the block is left only when every
\* task is done.
AllTasksDone(ts) == \A u \in 1..Len(ts) : ts[u].pc \in Terminal

\* ---- a workflow: run(firmware), lines 413-493 ----------------------------

\* run ends (return, or exception caught and logged): the slot is released.
\* An exception that is not caught ends the task and aborts the group.
EndRun(t, out, body, dl, val, ws) ==
    LET pcNew == IF out.end \in {"skipped", "processed"} THEN "Done" ELSE "Failed"
        T == [out.task EXCEPT !.pc = pcNew]
    IN  /\ Release([tasks EXCEPT ![t] = T], val, ws)
        /\ Commit(T, out.W)
        /\ last' = Observe([t |-> t, was |-> ipsw[<<T.dev, T.ver>>], body |-> body,
                             dlres |-> dl.res, dlfile |-> dl.ipsw, end |-> out.end])
        /\ mainpc' = IF out.end = "exception" /\ ~RunCatches(out.end)
                     THEN "aborting" ELSE mainpc
        /\ UNCHANGED <<zipvars, codes, fetched, idx>>

NoDownload == [res |-> "none", ipsw |-> "none"]

\* Lines 415-432 with the slot held: directories, the resumability check,
\* then download_file up to its first suspension point.
RunBody(t, val, ws) ==
    LET T == tasks[t]
        W == World(T)
        dl == download_entry(W.ipsw)
        Tp == [T EXCEPT !.pre = W.ipsw]
    IN  IF Resumable(W.md, T.ver)
        THEN EndRun(t, [task |-> T, W |-> W, end |-> "skipped"], "none", NoDownload, val, ws)
        ELSE IF dl.res = "Ok"
        THEN \E o \in ToolOutcomes(dl) :
                EndRun(t, Downloaded(Tp, t, W, dl, o[1], o[2], o[3]), "none", dl, val, ws)
        ELSE /\ tasks' = [tasks EXCEPT ![t] = [Tp EXCEPT !.pc = "get", !.http = @ + 1]]
             /\ Commit(T, [W EXCEPT !.ipsw = dl.ipsw])
             /\ value' = val
             /\ waiters' = ws
             /\ UNCHANGED <<zipvars, codes, fetched, mainpc, idx>> /\ last' = Observe(NoOutcome)

\* The event loop runs new tasks in creation order.
FirstCreated(t) ==
    /\ tasks[t].pc = "created"
    /\ \A u \in 1..(t - 1) : tasks[u].pc # "created"

\* A task starts: it takes a slot and goes on, or it queues.
Start(t) ==
    /\ mainpc \in {"loop", "join"}
    /\ FirstCreated(t)
    /\ IF Locked(value, waiters)
       THEN /\ tasks' = [tasks EXCEPT ![t].pc = "waiting"]
            /\ waiters' = Append(waiters, t)
            /\ UNCHANGED <<zipvars, codes, fetched, mainpc, idx, value, fsvars>> /\ last' = Observe(NoOutcome)
       ELSE RunBody(t, value - 1, waiters)

\* A woken waiter resumes with the slot release() gave it.  (_value > 0
\* never goes with a waiter not yet woken, so it wakes nobody else.)
Resume(t) ==
    /\ mainpc \in {"loop", "join"}
    /\ tasks[t].pc = "woken"
    /\ RunBody(t, value, Without(waiters, t))

\* session.get answers (or raises), lines 155-166.
HttpResponse(t) ==
    /\ mainpc \in {"loop", "join"}
    /\ tasks[t].pc = "get"
    /\ \E how \in {"200", "non200", "neterr", "exc"} :
        LET T == tasks[t]
            W == World(T)
            dl == download_finish(W.ipsw, how)
        IN  IF how = "200"
            THEN /\ tasks' = [tasks EXCEPT ![t] = [T EXCEPT !.pc = "stream"]]
                 /\ Commit(T, [W EXCEPT !.ipsw = "partial"])
                 /\ UNCHANGED <<zipvars, codes, fetched, mainpc, idx, value, waiters>> /\ last' = Observe(NoOutcome)
            ELSE EndRun(t, Downloaded(T, t, W, dl, "Ok", "Ok", "Ok"), how, dl, value, waiters)

\* The body has been streamed to its end, or the stream broke: lines 171-187,
\* and on success the rest of run.
StreamEnd(t) ==
    /\ mainpc \in {"loop", "join"}
    /\ tasks[t].pc = "stream"
    /\ \E how \in {"good", "bad", "neterr", "exc"} :
        LET T == tasks[t]
            W == World(T)
            dl == download_finish(W.ipsw, how)
        IN  \E o \in ToolOutcomes(dl) :
                EndRun(t, Downloaded(T, t, W, dl, o[1], o[2], o[3]), how, dl, value, waiters)

\* The group cancels its tasks one after the other.
FirstLive(t) ==
    /\ tasks[t].pc \notin Terminal
    /\ \A u \in 1..(t - 1) : tasks[u].pc \in Terminal

\* CancelledError reaches a task of an aborting group at its suspension
\* point: the finally of download_file and the exit of the semaphore run.
CancelTask(t) ==
    /\ mainpc = "aborting"
    /\ FirstLive(t)
    /\ LET T == [tasks[t] EXCEPT !.pc = "Cancelled"]
           W == World(T)
       IN  /\ IF tasks[t].pc \in {"created", "waiting"}
              THEN /\ tasks' = [tasks EXCEPT ![t] = T]
                   /\ waiters' = Without(waiters, t)
                   /\ UNCHANGED <<value, fsvars>>
              ELSE /\ Release([tasks EXCEPT ![t] = T], value, Without(waiters, t))
                   /\ IF tasks[t].pc = "woken"
                      THEN UNCHANGED fsvars
                      ELSE Commit(T, [W EXCEPT !.ipsw = FinallyUnlink(W.ipsw, "cancel")])
           /\ UNCHANGED <<zipvars, codes, fetched, mainpc, idx>> /\ last' = Observe(NoOutcome)

\* ---- main, fetch_and_bake, bake_ipcc -------------------------------------

\* The firmwares of all the catalogs of an enumeration.
RECURSIVE FirmwaresOf(_)
FirmwaresOf(cs) == IF cs = <<>> THEN 0 ELSE Len(Catalog(Head(cs))) + FirmwaresOf(Tail(cs))

\* bake_ipcc, lines 411-495: one task per firmware of the response.
bake_ipcc(d) == [k \in 1..Len(Catalog(d)) |-> NewTask(d, Catalog(d)[k])]

\* Every answer but 200 ends the run.
FatalUnless200(status) == status # "200"

\* fetch_and_bake, lines 505-516: an exception of session.get leaves
\* fetch_and_bake and the TaskGroup block; a status other than 200 is
\* logged (line 516) and fetch_and_bake returns.
Fatal(status) == status = "raise"

\* One turn of the loop of line 524: fetch_and_bake.  The catalog answers
\* 200 or another status, or the request raises.  Tasks created earlier
\* have started while main waited for the answer.
FetchAndBake ==
    /\ mainpc = "loop"
    /\ \A u \in 1..Len(tasks) : tasks[u].pc # "created"
    /\ \E status \in {"200", "non200", "raise"} :
        /\ fetched' = Append(fetched, status)
        /\ tasks' = IF status = "200" THEN tasks \o bake_ipcc(codes[idx]) ELSE tasks
        /\ idx' = IF Fatal(status) THEN idx ELSE idx + 1
        /\ mainpc' = IF Fatal(status) THEN "aborting"
                     ELSE IF idx = Len(codes) THEN "join" ELSE "loop"
    /\ UNCHANGED <<zipvars, codes, value, waiters, fsvars>> /\ last' = Observe(NoOutcome)

\* The TaskGroup block is left, the session closed: main returns.
MainReturn ==
    /\ mainpc = "join"
    /\ AllTasksDone(tasks)
    /\ mainpc' = "returned"
    /\ UNCHANGED <<zipvars, codes, fetched, idx, tasks, value, waiters, fsvars>> /\ last' = Observe(NoOutcome)

\* An aborted group raises once its tasks are done.
MainRaise ==
    /\ mainpc = "aborting"
    /\ \A u \in 1..Len(tasks) : tasks[u].pc \in Terminal
    /\ mainpc' = "raised"
    /\ UNCHANGED <<zipvars, codes, fetched, idx, tasks, value, waiters, fsvars>> /\ last' = Observe(NoOutcome)

\* ---- the initial file system ---------------------------------------------

SeedEntry(v) == [version |-> v, sha1 |-> "sha1sum", status |-> "processed", downloaded_at |-> 0]

\* metadata.json as an earlier run (or nobody) left it.
InitLedgers ==
    {EmptyFile} \cup {[valid |-> b, items |-> <<SeedEntry(v)>>, updated_at |-> 0] :
                        b \in BOOLEAN, v \in Versions}

\* main starts: nothing fetched, no task, every slot free.
Fresh(n) ==
    /\ codes = IPHONES_PRODUCT_CODES(n)
    /\ mainpc = "loop"
    /\ idx = 1
    /\ fetched = <<>>
    /\ tasks = <<>>
    /\ value = SemaphoreSize
    /\ waiters = <<>>
    /\ infolist = <<>>
    /\ biggest_dmg = NotSelected

\* The ledger holds a fw entry "processed" of the version.
HasProcessedEntry(file, ver) ==
    \E i \in 1..Len(file.items) :
        file.items[i].version = ver /\ file.items[i].status = "processed"

\* Device 1, the one the enumeration names twice, has a history: firmware
\* files somebody put into its version folders, ledgers of an earlier run
\* and the archives of the versions that run completed.  The other devices
\* start from nothing.  A damaged bundles.json is taken into account in the
\* folders that hold a firmware file.
InitHistory ==
    /\ Fresh(MaxCodes)
    /\ last = NoOutcome
    /\ ipsw \in {f \in [Dirs -> {"absent", "good", "corrupt"}] :
                    \A d \in Dirs : d[1] # 1 => f[d] = "absent"}
    /\ dmg = [d \in Dirs |-> "absent"]
    /\ bundlesJson \in {f \in [Dirs -> {EmptyFile, [EmptyFile EXCEPT !.valid = FALSE]}] :
                    \A d \in Dirs : ipsw[d] # "good" => f[d] = EmptyFile}
    /\ metadata \in {f \in [Devices -> InitLedgers] :
                    \A d \in Devices : d # 1 => f[d] = EmptyFile}
    /\ tars = [d \in Dirs |-> IF HasProcessedEntry(metadata[d[1]], d[2]) THEN <<0>> ELSE <<>>]

\* A first run on an empty disk, over a longer enumeration.
InitGate ==
    /\ Fresh(GateCodes)
    /\ last = Unobserved
    /\ ipsw = [d \in Dirs |-> "absent"]
    /\ dmg = [d \in Dirs |-> "absent"]
    /\ tars = [d \in Dirs |-> <<>>]
    /\ bundlesJson = [d \in Dirs |-> EmptyFile]
    /\ metadata = [d \in Devices |-> EmptyFile]

\* A run is of one kind or the other.
Init == InitHistory \/ InitGate

Next ==
    \/ FetchAndBake
    \/ MainReturn
    \/ MainRaise
    \/ \E t \in 1..Len(tasks) : Start(t)
    \/ \E t \in 1..Len(tasks) : Resume(t)
    \/ \E t \in 1..Len(tasks) : HttpResponse(t)
    \/ \E t \in 1..Len(tasks) : StreamEnd(t)
    \/ \E t \in 1..Len(tasks) : CancelTask(t)

Spec == Init /\ [][Next]_vars

\* The event loop runs whatever is ready, every request is answered or
\* fails and every stage comes to its end: a run goes on as long as it has
\* a step to take.  (No run of main takes infinitely many steps, so this
\* is as strong as fairness for every task and for main one by one.)
Fairness == WF_vars(Next)

\* A first run on an empty disk, under fair scheduling.
SpecFair == InitGate /\ [][Next]_vars /\ Fairness

\* ---- the selection of the disk image, on its own ------------------------

\* The declared sizes of the entries.
FileSizes == {10, 512, 4096}

\* Containers of up to MaxEntries entries.
Containers == UNION {[1..n -> FileSizes] : n \in 0..MaxEntries}

\* extract_the_biggest_dmg is handed a container; nothing else goes on.
InitSelect ==
    /\ codes = <<>>
    /\ mainpc = "returned"
    /\ idx = 1
    /\ fetched = <<>>
    /\ tasks = <<>>
    /\ value = SemaphoreSize
    /\ waiters = <<>>
    /\ ipsw = [d \in Dirs |-> "absent"]
    /\ dmg = [d \in Dirs |-> "absent"]
    /\ tars = [d \in Dirs |-> <<>>]
    /\ bundlesJson = [d \in Dirs |-> EmptyFile]
    /\ metadata = [d \in Devices |-> EmptyFile]
    /\ last = Unobserved
    /\ infolist \in Containers
    /\ biggest_dmg = NotSelected

\* Lines 286-288.
Select ==
    /\ biggest_dmg = NotSelected
    /\ biggest_dmg' = SelectBiggest(infolist)
    /\ UNCHANGED <<codes, mainpc, idx, fetched, tasks, value, waiters, fsvars, last, infolist>>

SpecSelect == InitSelect /\ [][Select]_vars

\* ==== properties ==========================================================

TaskIds == 1..Len(tasks)
DirOf(t) == <<tasks[t].dev, tasks[t].ver>>
WroteEntry(t) ==
    \E i \in 1..Len(tasks[t].stages) :
        tasks[t].stages[i].name = "device_ledger" /\ tasks[t].stages[i].ok
HasEntryOf(t) ==
    \E i \in 1..Len(metadata[tasks[t].dev].items) :
        /\ metadata[tasks[t].dev].items[i].downloaded_at = t
        /\ metadata[tasks[t].dev].items[i].version = tasks[t].ver
IsPrefix(a, b) == Len(a) <= Len(b) /\ SubSeq(b, 1, Len(a)) = a

\* The workflows past admission: a slot is theirs.
HeldSlots == Cardinality({t \in TaskIds : tasks[t].pc \in Holding})

\* C1: at every instant at most 5 workflows hold the semaphore, over all
\* devices and versions together, however many tasks have been created.
C1_ConcurrencyBound == HeldSlots <= SemaphoreSize

\* Five workflows hold a slot while a sixth one waits for one.
C1_Witness ==
    /\ HeldSlots = SemaphoreSize
    /\ \E t \in TaskIds : tasks[t].pc = "waiting"

\* The step in which workflow t enters the body of run with a slot.
Admitted(t) ==
    /\ tasks[t].pc \in {"created", "woken"}
    /\ tasks'[t].pc \notin {"created", "woken", "waiting", "Cancelled"}

C2_Step ==
    \A t \in TaskIds :
        (Admitted(t) /\ Contains(ReadText(metadata[tasks[t].dev]), tasks[t].ver))
            => /\ tasks'[t].pc = "Done"
               /\ tasks'[t].http = 0
               /\ tasks'[t].stages = <<>>
               /\ UNCHANGED fsvars

\* C2: a workflow admitted while its version occurs in the text of the
\* device's metadata.json ends Done in that very step, has issued no GET and
\* run no stage, and leaves every file (metadata.json and bundles.json
\* included) as it was.
C2_ResumeSkips == [][C2_Step]_vars

\* A workflow was skipped although its firmware file lay ready in its folder.
C2_Witness ==
    /\ last.t # 0
    /\ last.end = "skipped"
    /\ tasks[last.t].pc = "Done"
    /\ ipsw[DirOf(last.t)] = "good"
    /\ Contains(ReadText(metadata[tasks[last.t].dev]), tasks[last.t].ver)

\* The step in which workflow t fails.
Fails(t) == tasks[t].pc \notin Terminal /\ tasks'[t].pc = "Failed"
C3_Step ==
    \A t \in TaskIds :
        Fails(t) =>
            /\ mainpc' = mainpc
            /\ Len(tasks') = Len(tasks)
            /\ \A u \in TaskIds \ {t} :
                \/ tasks'[u] = tasks[u]
                \/ /\ tasks[u].pc = "waiting"
                   /\ tasks'[u] = [tasks[u] EXCEPT !.pc = "woken"]
            /\ metadata' = metadata
            /\ \A d \in Dirs \ {DirOf(t)} :
                /\ ipsw'[d] = ipsw[d]
                /\ dmg'[d] = dmg[d]
                /\ tars'[d] = tars[d]
                /\ bundlesJson'[d] = bundlesJson[d]
AllStagesOk(t) ==
    /\ Len(tasks[t].stages) = 6
    /\ \A i \in 1..6 : tasks[t].stages[i].ok

\* C3: the step in which a workflow fails (Error returned or exception
\* raised) neither aborts the run nor cancels or changes another workflow
\* (a waiter may receive the freed slot), and changes neither the ledgers
\* nor another version folder; and every workflow whose own stages all
\* succeeded is Done with its entry in the ledger.
C3_FailureIsolation ==
    /\ [][C3_Step]_vars
    /\ [](\A t \in TaskIds : AllStagesOk(t) => (tasks[t].pc = "Done" /\ HasEntryOf(t)))

\* Workflow a failed in extraction within its first segment, before the
\* later task b of another version started; b is Done with its entry.
C3_Witness ==
    \E a, b \in TaskIds :
        /\ a < b
        /\ tasks[a].ver # tasks[b].ver
        /\ tasks[a].pc = "Failed"
        /\ tasks[a].http = 0
        /\ Len(tasks[a].stages) = 2
        /\ tasks[a].stages[2] = [name |-> "extract", ok |-> FALSE]
        /\ tasks[b].pc = "Done"
        /\ AllStagesOk(b)
        /\ HasEntryOf(b)

\* C4: the fw list of a device only ever grows at its end, and the entry of
\* every workflow that wrote one is in the ledger in every later state.
C4_NoLostUpdate ==
    /\ [][\A d \in Devices : IsPrefix(metadata[d].items, metadata'[d].items)]_vars
    /\ [](\A t \in TaskIds : WroteEntry(t) => HasEntryOf(t))

\* Two workflows of one device, for different versions, both wrote.
C4_Witness ==
    \E a, b \in TaskIds :
        /\ a # b
        /\ tasks[a].dev = tasks[b].dev
        /\ tasks[a].ver # tasks[b].ver
        /\ WroteEntry(a) /\ HasEntryOf(a)
        /\ WroteEntry(b) /\ HasEntryOf(b)

\* C5: the fw list of a device never holds two entries of one version,
\* also when two workflows exist for the same device and version.
C5_VersionOnce ==
    \A d \in Devices : \A i, j \in 1..Len(metadata[d].items) :
        i # j => metadata[d].items[i].version # metadata[d].items[j].version

\* Both workflows of a device named twice are done; the first wrote the
\* entry of their version.
C5_Witness ==
    \E a, b \in TaskIds :
        /\ a < b
        /\ DirOf(a) = DirOf(b)
        /\ tasks[a].pc = "Done" /\ WroteEntry(a) /\ HasEntryOf(a)
        /\ tasks[b].pc = "Done"

\* C6: a file with a wrong digest at the destination, a server answering
\* 200 with the complete, right body: download_file returns Ok and the file
\* at the path has the expected digest.
C6_CorruptionRecovery ==
    (last.t # 0 /\ tasks[last.t].pre \in {"corrupt", "partial"} /\ last.body = "good")
        => (last.dlres = "Ok" /\ last.dlfile = "good")

\* C7: 200 and a complete body of another digest: download_file returns the
\* hash-mismatch Error (it neither returns Ok nor raises), and leaves no
\* file a next run would accept.
C7_HashMismatchReported ==
    (last.t # 0 /\ last.body = "bad")
        => (last.dlres = "ErrHash" /\ last.dlfile # "good")

\* C8: the destination file exists with the expected digest: download_file
\* returns Ok with no GET issued and the file as it was.
C8_ValidFileKept ==
    (last.t # 0 /\ tasks[last.t].pre = "good")
        => (last.dlres = "Ok" /\ tasks[last.t].http = 0 /\ last.dlfile = "good")

\* download_file was entered with the valid file in place and returned Ok.
C8_Witness ==
    /\ last.t # 0
    /\ tasks[last.t].pre = "good"
    /\ last.dlres = "Ok"
    /\ Len(tasks[last.t].stages) >= 1

StageOrder == <<"download", "extract", "relocate", "package", "bundles_json", "device_ledger">>

\* C9: the stages of a workflow run in the order download, extraction,
\* relocation, packaging, bundle-ledger write, device-ledger write; every
\* stage but the last one run has succeeded; a workflow with a failed stage
\* has no fw entry in the device ledger.
C9_StagesSequential ==
    \A t \in TaskIds :
        LET st == tasks[t].stages IN
        /\ Len(st) <= Len(StageOrder)
        /\ \A i \in 1..Len(st) : st[i].name = StageOrder[i]
        /\ \A i \in 1..(Len(st) - 1) : st[i].ok
        /\ (\E i \in 1..Len(st) : ~st[i].ok) => ~HasEntryOf(t)

\* C10: main has returned only if every task created is Done or Failed; when
\* main is over (returned or raised) no task is anywhere but in a terminal state.
C10_MainAwaitsAll ==
    /\ mainpc = "returned" => \A t \in TaskIds : tasks[t].pc \in {"Done", "Failed"}
    /\ mainpc \in {"returned", "raised"} => \A t \in TaskIds : tasks[t].pc \in Terminal

\* main returned after the whole enumeration, with workflows of both ends.
C10_Witness ==
    /\ mainpc = "returned"
    /\ idx = Len(codes) + 1
    /\ Len(tasks) = FirmwaresOf(codes)
    /\ \E t \in TaskIds : tasks[t].pc = "Done"
    /\ \E t \in TaskIds : tasks[t].pc = "Failed"

\* The step in which workflow t runs its n-th stage.
RunsStage(t, n) == Len(tasks[t].stages) < n /\ Len(tasks'[t].stages) >= n

C11_Step ==
    \A t \in TaskIds :
        /\ (RunsStage(t, 5) /\ ~bundlesJson[DirOf(t)].valid)
              => /\ ~tasks'[t].stages[5].ok
                 /\ bundlesJson'[DirOf(t)] = bundlesJson[DirOf(t)]
        /\ (RunsStage(t, 6) /\ ~metadata[tasks[t].dev].valid)
              => /\ ~tasks'[t].stages[6].ok
                 /\ metadata'[tasks[t].dev] = metadata[tasks[t].dev]

\* C11: put_metadata called on a file whose text is not valid JSON returns
\* a failure and leaves the file exactly as it was, for bundles.json and for
\* metadata.json: no item is added and updated_at is not stamped; no step
\* at all changes a file that holds invalid JSON.
C11_MalformedLedgerUntouched ==
    /\ [][C11_Step]_vars
    /\ [][\A d \in Dirs : ~bundlesJson[d].valid => bundlesJson'[d] = bundlesJson[d]]_vars
    /\ [][\A d \in Devices : ~metadata[d].valid => metadata'[d] = metadata[d]]_vars

\* A workflow ran both ledger writes on files of invalid JSON: both
\* returned a failure, and both files are without its items and its stamp.
C11_Witness ==
    \E t \in TaskIds :
        /\ Len(tasks[t].stages) = 6
        /\ ~tasks[t].stages[5].ok /\ ~tasks[t].stages[6].ok
        /\ ~bundlesJson[DirOf(t)].valid /\ bundlesJson[DirOf(t)].items = <<>>
        /\ bundlesJson[DirOf(t)].updated_at # t
        /\ ~metadata[tasks[t].dev].valid /\ ~HasEntryOf(t)
        /\ metadata[tasks[t].dev].updated_at # t

\* A workflow inside the body of run, suspended in download_file.
Active(t) == tasks[t].pc \in {"get", "stream"}

\* C12: no two workflows are inside run for the same version folder at the
\* same instant, also when the enumeration names a device twice.
C12_ExclusiveDirectory ==
    \A a, b \in TaskIds :
        (a # b /\ Active(a) /\ Active(b)) => DirOf(a) # DirOf(b)

DownloadErrors == {"ErrStatus", "ErrNetwork", "ErrOther"}

\* C13: when download_file ends with an Error for a status other than 200,
\* for a network error or for another exception of the fetch, no file is at
\* the destination path; and the step in which a workflow suspended in
\* download_file fails leaves no file there.
C13_NoPartialFile ==
    /\ [](last.dlres \in DownloadErrors
            => (last.dlfile = "absent" /\ ipsw[DirOf(last.t)] = "absent"))
    /\ [][\A t \in TaskIds : (Active(t) /\ Fails(t)) => ipsw'[DirOf(t)] = "absent"]_vars

\* The connection broke while the body was being written to the file.
C13_Witness ==
    /\ last.t # 0
    /\ last.was = "partial"
    /\ last.body = "neterr"
    /\ last.dlres = "ErrNetwork"
    /\ tasks[last.t].pc = "Failed"
    /\ ipsw[DirOf(last.t)] = "absent"

\* The version of folder d is completed: its archives are written and its
\* fw entry is in the device ledger.
Completed(d) == tars[d] # <<>> /\ HasProcessedEntry(metadata[d[1]], d[2])

\* C14: no step, of any workflow, in the run that completed a version or in
\* a later run, deletes or rewrites the archives of a completed version.
C14_ArchivesKept == [][\A d \in Dirs : Completed(d) => tars'[d] = tars[d]]_vars

\* A workflow for a completed version, its firmware file at hand, has run
\* and ended; the archives are not of its making.
C14_Witness ==
    /\ last.t # 0
    /\ last.end = "skipped"
    /\ last.was = "good"
    /\ Completed(DirOf(last.t))
    /\ tars[DirOf(last.t)] # <<last.t>>

\* The devices of the workflows that the first n catalog requests created.
RECURSIVE CreatedFor(_)
CreatedFor(n) ==
    IF n = 0 THEN <<>>
    ELSE CreatedFor(n - 1) \o
         (IF fetched[n] = "200" THEN [k \in 1..Len(Catalog(codes[n])) |-> codes[n]] ELSE <<>>)

\* C15: the workflows created are those of the devices whose catalog
\* answered 200, one per firmware and none for a device that answered
\* another status; such an answer changes no workflow and does not end the
\* run: only a request that raised is the last one, and main joins or
\* returns only after a request for every device of the enumeration.
C15_CatalogFailureNotFatal ==
    /\ [][fetched' = Append(fetched, "non200")
            => (tasks' = tasks /\ mainpc' \in {"loop", "join"})]_vars
    /\ []([t \in TaskIds |-> tasks[t].dev] = CreatedFor(Len(fetched)))
    /\ [](\A i \in 1..Len(fetched) : fetched[i] = "raise" => i = Len(fetched))
    /\ [](mainpc \in {"aborting", "raised"}
            => (fetched # <<>> /\ fetched[Len(fetched)] = "raise"))
    /\ [](mainpc = "loop" => idx = Len(fetched) + 1)
    /\ [](mainpc \in {"join", "returned"} => Len(fetched) = Len(codes))

\* main returned; a catalog answered another status than 200 between two
\* that answered 200, whose workflows all ran to their end.
C15_Witness ==
    /\ mainpc = "returned"
    /\ \E i, j, k \in 1..Len(fetched) :
        /\ i < j /\ j < k
        /\ fetched[i] = "200" /\ fetched[j] = "non200" /\ fetched[k] = "200"
        /\ codes[i] # codes[k]
    /\ \A t \in TaskIds : tasks[t].pc \in {"Done", "Failed"}

\* The step in which workflow t ran extract_the_biggest_dmg with success.
Extracts(t) == RunsStage(t, 2) /\ tasks'[t].stages[2].ok

C16_Step ==
    /\ \A t \in TaskIds :
        RunsStage(t, 2) =>
            IF tasks'[t].stages[2].ok
            THEN ipsw'[DirOf(t)] = "absent" /\ dmg'[DirOf(t)] = "absent"
            ELSE /\ tasks'[t].pc = "Failed"
                 /\ ipsw[DirOf(t)] = "good" /\ ipsw'[DirOf(t)] = "good"
                 /\ dmg'[DirOf(t)] # "absent"
                 /\ download_entry(ipsw'[DirOf(t)]).res = "Ok"
    /\ \A d \in Dirs :
        ((ipsw[d] = "good" /\ ipsw'[d] # "good") \/ (dmg[d] # "absent" /\ dmg'[d] = "absent"))
            => \E t \in TaskIds : DirOf(t) = d /\ Extracts(t)

\* C16: extraction removes the container and the disk image in the step in
\* which it succeeds (7z exit code 0) and in no other; when it fails
\* (decryption failure, 7z exit code # 0, exception) the workflow fails, the
\* image is still there and the container is still on disk with its digest,
\* so that download_file of a re-run returns it without a GET.
C16_ContainerKeptOnFailure == [][C16_Step]_vars

\* Extraction failed at 7z for workflow a; the later workflow b of the same
\* folder found the container and went on to extraction without a GET.
C16_Witness ==
    \E a, b \in TaskIds :
        /\ a < b
        /\ DirOf(a) = DirOf(b)
        /\ tasks[a].pc = "Failed"
        /\ tasks[a].stages = <<[name |-> "download", ok |-> TRUE], [name |-> "extract", ok |-> FALSE]>>
        /\ tasks[b].pre = "good"
        /\ tasks[b].http = 0
        /\ Len(tasks[b].stages) >= 2
        /\ tasks[b].stages[1].ok
        /\ dmg[DirOf(a)] = "dmg"

\* C17: the entry selected from a non-empty container has a declared size
\* not smaller than that of any entry of the container; from the sizes
\* 10, 4096, 512 it is the entry of 4096 bytes.
C17_LargestEntrySelected ==
    /\ (biggest_dmg # NotSelected /\ infolist # <<>>)
          => /\ biggest_dmg.res = "Ok"
             /\ biggest_dmg.entry \in 1..Len(infolist)
             /\ \A i \in 1..Len(infolist) : infolist[biggest_dmg.entry] >= infolist[i]
    /\ (biggest_dmg # NotSelected /\ infolist = <<10, 4096, 512>>)
          => infolist[biggest_dmg.entry] = 4096

\* The entry of 4096 bytes was selected from the sizes 10, 4096, 512.
C17_Witness ==
    /\ infolist = <<10, 4096, 512>>
    /\ biggest_dmg = [res |-> "Ok", entry |-> 2]

\* Workflow t has entered the body of run with a slot.
WasAdmitted(t) ==
    /\ t \in TaskIds
    /\ \/ tasks[t].pc \in {"get", "stream", "Done", "Failed"}
       \/ tasks[t].pc = "Cancelled" /\ tasks[t].http > 0

\* main is over.
Over == mainpc \in {"returned", "raised"}

\* C18: the slots taken from the semaphore are those of the workflows
\* inside run; and under fair scheduling every workflow created is
\* eventually admitted and eventually in a terminal state: the run comes to
\* its end with every workflow it created admitted and terminal (a workflow
\* once created, admitted or terminal stays so).
C18_SlotsReleasedAndProgress ==
    /\ [](SemaphoreSize - value = HeldSlots)
    /\ <>(Over /\ \A t \in TaskIds : WasAdmitted(t) /\ tasks[t].pc \in Terminal)

\* C19: a fw entry "processed" of a workflow's version is in the device
\* ledger only if that workflow's write of the bundle records to
\* bundles.json succeeded before, and the records are in bundles.json.
C19_LedgerAfterBundles ==
    \A t \in TaskIds :
        (HasEntryOf(t) /\ HasProcessedEntry(metadata[tasks[t].dev], tasks[t].ver))
            => /\ Len(tasks[t].stages) >= 5
               /\ tasks[t].stages[5] = [name |-> "bundles_json", ok |-> TRUE]
               /\ bundlesJson[DirOf(t)].items # <<>>

====
